---- MODULE Spec2Model ----
(***************************************************************************)
(* GPA_Tracker: the persistence store (tables, constraints, row level      *)
(* security, the calculate_gpa procedure) and the client handlers that     *)
(* call it.  Grade points are integer hundredths (DECIMAL(3,2)); text is a *)
(* sequence of one-character strings so that trim/parse are computed.      *)
(***************************************************************************)
EXTENDS Integers, Sequences, FiniteSets, TLC

VARIABLES grading_criteria, semesters, modules, nextId,
          hasGradingCriteria, semestersState, pc, semesterToDelete,
          profiles, showConfirmationDialog, authToast,
          profile, page, totalPages, leaderboard, loading, loads,
          currentGPA, cumulativeGPA, setupToast, setupLoading

vars == <<grading_criteria, semesters, modules, nextId,
          hasGradingCriteria, semestersState, pc, semesterToDelete,
          profiles, showConfirmationDialog, authToast,
          profile, page, totalPages, leaderboard, loading, loads,
          currentGPA, cumulativeGPA, setupToast, setupLoading>>

storeVars == <<grading_criteria, semesters, modules, nextId>>
uiVars == <<hasGradingCriteria, semestersState, pc, semesterToDelete>>
\* the Auth page and the Leaderboard page
authVars == <<showConfirmationDialog, authToast>>
boardVars == <<profile, page, totalPages, leaderboard, loading, loads>>
\* the two GPA cards of the semester overview
overviewVars == <<currentGPA, cumulativeGPA>>
\* the toast and the loading flag of the grading-criteria setup form
setupVars == <<setupToast, setupLoading>>
\* what the dashboard's handlers and the requests on the academic tables
\* leave alone
accountVars == <<profiles, authVars, boardVars, overviewVars, setupVars>>

(* ------------------------------ bounds -------------------------------- *)
\* rows the sessions ever insert into grading_criteria, semesters, modules
MaxCriteria == 2
MaxSemesters == 2
MaxDialogModules == 2
\* rows direct requests ever insert into modules
MaxModules == 3

Users == {"u1", "u2"}
\* the ids auth.users hands out, in the order of registration
AccountIds == <<"u1", "u2", "u3", "u4", "u5", "u6", "u7", "u8", "u9", "u10",
                "u11", "u12", "u13">>
\* browser sessions and the authenticated user of each (auth.uid())
Sessions == {"s1", "s2"}
SessionUser(s) == "u1"

\* a nullable value is <<>> (NULL, null, NaN) or <<v>>
NULL == <<>>
NaN == <<>>
Some(v) == <<v>>
ValueOf(x) == x[1]
isNaN(x) == x = NaN
\* how a procedure call ends
Returned(v) == [value |-> v]
Raised(e) == [error |-> e]

(* ------------------------------- text --------------------------------- *)
Digits == <<"0", "1", "2", "3", "4", "5", "6", "7", "8", "9">>
IsDigit(c) == \E i \in 1..Len(Digits) : Digits[i] = c
DigitVal(c) == (CHOOSE i \in 1..Len(Digits) : Digits[i] = c) - 1
IsSpace(c) == c = " "

RECURSIVE TrimStart(_)
TrimStart(s) == IF s # <<>> /\ IsSpace(Head(s)) THEN TrimStart(Tail(s)) ELSE s

RECURSIVE TrimEnd(_)
TrimEnd(s) ==
  IF s # <<>> /\ IsSpace(s[Len(s)]) THEN TrimEnd(SubSeq(s, 1, Len(s) - 1)) ELSE s

\* String.prototype.trim
trim(s) == TrimEnd(TrimStart(s))

RECURSIVE TakeDigits(_)
TakeDigits(s) ==
  IF s # <<>> /\ IsDigit(Head(s)) THEN <<Head(s)>> \o TakeDigits(Tail(s)) ELSE <<>>

RECURSIVE DigitsValue(_)
DigitsValue(d) ==
  IF d = <<>> THEN 0 ELSE 10 * DigitsValue(SubSeq(d, 1, Len(d) - 1)) + DigitVal(d[Len(d)])

\* the first three fraction digits as thousandths
FractionThousandths(f) ==
  LET pad == SubSeq(f \o <<"0", "0", "0">>, 1, 3) IN DigitsValue(pad)

\* parseFloat: leading blanks, an optional sign, digits, an optional fraction;
\* the longest such prefix is the value (in thousandths), NaN when it has no digit
parseFloat(s) ==
  LET t == TrimStart(s)
      neg == t # <<>> /\ Head(t) = "-"
      u == IF t # <<>> /\ Head(t) \in {"-", "+"} THEN Tail(t) ELSE t
      ip == TakeDigits(u)
      r == SubSeq(u, Len(ip) + 1, Len(u))
      fp == IF r # <<>> /\ Head(r) = "." THEN TakeDigits(Tail(r)) ELSE <<>>
      mag == 1000 * DigitsValue(ip) + FractionThousandths(fp)
  IN IF ip = <<>> /\ fp = <<>> THEN NaN ELSE Some(IF neg THEN 0 - mag ELSE mag)

\* parseInt: leading blanks, an optional sign, digits
parseInt(s) ==
  LET t == TrimStart(s)
      neg == t # <<>> /\ Head(t) = "-"
      u == IF t # <<>> /\ Head(t) \in {"-", "+"} THEN Tail(t) ELSE t
      ip == TakeDigits(u)
  IN IF ip = <<>> THEN NaN ELSE Some(IF neg THEN 0 - DigitsValue(ip) ELSE DigitsValue(ip))

(* ----------------------------- numerics ------------------------------- *)
Abs(x) == IF x < 0 THEN 0 - x ELSE x

\* (a rounding that sends a tie to the even neighbour)
RoundDivHalfEven(n, d) ==
  LET q == Abs(n) \div Abs(d)
      twice == 2 * (Abs(n) - q * Abs(d))
      up == twice > Abs(d) \/ (twice = Abs(d) /\ q % 2 = 1)
      r == IF up THEN q + 1 ELSE q
  IN IF (n < 0) = (d < 0) THEN r ELSE 0 - r

\* numeric ROUND: n / d to the nearest integer, ties away from zero (d # 0)
RoundDiv(n, d) ==
  LET q == (2 * Abs(n) + Abs(d)) \div (2 * Abs(d))
  IN IF (n < 0) = (d < 0) THEN q ELSE 0 - q

\* DECIMAL(3,2): a value given in thousandths is rounded to hundredths on
\* assignment; |value| >= 10 is a numeric field overflow
Decimal32Max == 999
ToDecimal32(thousandths) == RoundDiv(thousandths, 10)
FitsDecimal32(hundredths) == Abs(hundredths) <= Decimal32Max

(* ------------------------------ the store ----------------------------- *)
\* grading_criteria rows: [id, user_id, grade_name, gpa_value (hundredths)]
\* semesters rows:        [id, user_id, is_current]
\* modules rows:          [id, semester_id, user_id, credit_hours, grade, attempt_type]
AttemptTypes == {"first_attempt", "repeat", "dropped"}

\* row level security: USING / WITH CHECK (auth.uid() = user_id)
OwnRows(table, uid) == {r \in table : r.user_id = uid}

\* INSERT INTO grading_criteria, one statement for all rows; gpa_value arrives
\* in thousandths and is stored as DECIMAL(3,2)
CriteriaInsertAllowed(uid, rows) ==
  \A i \in 1..Len(rows) :
    /\ rows[i].user_id = uid
    /\ FitsDecimal32(ToDecimal32(rows[i].gpa_value))

CriteriaInserted(rows) ==
  grading_criteria \cup
    { [id |-> nextId.grading_criteria + i - 1,
       user_id |-> rows[i].user_id,
       grade_name |-> rows[i].grade_name,
       gpa_value |-> ToDecimal32(rows[i].gpa_value)] : i \in 1..Len(rows) }

\* INSERT INTO semesters
SemesterInserted(uid, is_current) ==
  semesters \cup {[id |-> nextId.semesters, user_id |-> uid, is_current |-> is_current]}

\* (an UPDATE that clears no flag)
SemestersKept(uid, userId) == semesters

\* UPDATE semesters SET is_current = false WHERE user_id = userId
SemestersCleared(uid, userId) ==
  { IF s.user_id = uid /\ s.user_id = userId THEN [s EXCEPT !.is_current = FALSE] ELSE s
    : s \in semesters }

\* DELETE FROM semesters WHERE id = sid: the rows the policy lets uid delete
SemestersDeleted(uid, sid) == {s \in semesters : s.id = sid /\ s.user_id = uid}

\* (a DELETE of a semester that takes no module with it)
CascadeNothing(gone) == {}

\* modules.semester_id REFERENCES semesters(id) ON DELETE CASCADE
CascadeDeleted(gone) == {m \in modules : \E s \in gone : m.semester_id = s.id}

\* INSERT INTO modules: the policy's check and the foreign key
ModuleInsertAllowed(uid, row) ==
  /\ row.user_id = uid
  /\ \E s \in semesters : s.id = row.semester_id

ModuleInserted(row) ==
  modules \cup {[id |-> nextId.modules,
                 semester_id |-> row.semester_id,
                 user_id |-> row.user_id,
                 credit_hours |-> row.credit_hours,
                 grade |-> row.grade,
                 attempt_type |-> row.attempt_type]}

\* DELETE FROM modules WHERE semester_id = sid / WHERE id = mid
ModulesOfSemesterDeleted(uid, sid) ==
  {m \in modules : m.semester_id = sid /\ m.user_id = uid}
ModuleDeleted(uid, mid) == {m \in modules : m.id = mid /\ m.user_id = uid}

(* --------------------------- calculate_gpa ---------------------------- *)
\* (the same without the attempt_type condition)
SelectedModulesWithDropped(p_user_id, p_semester_id) ==
  { m \in modules :
      /\ \E s \in semesters : m.semester_id = s.id
      /\ m.user_id = p_user_id
      /\ (p_semester_id = NULL \/ m.semester_id = ValueOf(p_semester_id)) }

\* (the same without the p_semester_id condition)
SelectedModulesAnySemester(p_user_id, p_semester_id) ==
  { m \in modules :
      /\ \E s \in semesters : m.semester_id = s.id
      /\ m.user_id = p_user_id
      /\ m.attempt_type # "dropped" }

\* the rows of the FOR ... IN SELECT
SelectedModules(p_user_id, p_semester_id) ==
  { m \in modules :
      /\ \E s \in semesters : m.semester_id = s.id
      /\ m.user_id = p_user_id
      /\ (p_semester_id = NULL \/ m.semester_id = ValueOf(p_semester_id))
      /\ m.attempt_type # "dropped" }

\* the rows of SELECT gc.gpa_value ... WHERE user_id = .. AND grade_name = ..
MatchingCriteria(p_user_id, grade) ==
  { gc \in grading_criteria : gc.user_id = p_user_id /\ gc.grade_name = grade }

\* (a SELECT INTO that leaves the target alone when no row is found)
SelectIntoKeepsTarget(previous, found, choice) ==
  IF found = {} THEN previous ELSE Some(ValueOf(choice).gpa_value)

\* SELECT ... INTO gpa_value ... LIMIT 1: the target becomes the chosen row's
\* value, and NULL when the query returns no row
SelectInto(previous, found, choice) ==
  IF found = {} THEN NULL ELSE Some(ValueOf(choice).gpa_value)

\* (an accumulation that forgets the credit-hour weight of the points)
AccumulateUnweighted(acc, gpa_value, module_record) ==
  IF gpa_value # NULL
  THEN [total_grade_points |-> acc.total_grade_points + ValueOf(gpa_value),
        total_credit_hours |-> acc.total_credit_hours + module_record.credit_hours,
        gpa_value |-> gpa_value]
  ELSE [acc EXCEPT !.gpa_value = gpa_value]

\* (an accumulation that keeps the last counted module only)
AccumulateLastOnly(acc, gpa_value, module_record) ==
  IF gpa_value # NULL
  THEN [total_grade_points |-> ValueOf(gpa_value) * module_record.credit_hours,
        total_credit_hours |-> module_record.credit_hours,
        gpa_value |-> gpa_value]
  ELSE [acc EXCEPT !.gpa_value = gpa_value]

\* IF gpa_value IS NOT NULL THEN add to both totals
Accumulate(acc, gpa_value, module_record) ==
  IF gpa_value # NULL
  THEN [total_grade_points |->
          acc.total_grade_points + ValueOf(gpa_value) * module_record.credit_hours,
        total_credit_hours |-> acc.total_credit_hours + module_record.credit_hours,
        gpa_value |-> gpa_value]
  ELSE [acc EXCEPT !.gpa_value = gpa_value]

\* the LOOP body over order[i..]; acc = [total_grade_points, total_credit_hours,
\* gpa_value]
RECURSIVE GpaLoop(_, _, _, _, _)
GpaLoop(p_user_id, order, pick, i, acc) ==
  IF i > Len(order) THEN acc
  ELSE
    LET module_record == order[i]
        found == MatchingCriteria(p_user_id, module_record.grade)
        gpa_value == SelectInto(acc.gpa_value, found, pick[module_record.id])
    IN GpaLoop(p_user_id, order, pick, i + 1, Accumulate(acc, gpa_value, module_record))

\* RETURN ROUND(points / credits, 2) as DECIMAL(3,2)
GpaDivide(acc) ==
  IF acc.total_credit_hours = 0 THEN Raised("division_by_zero")
  ELSE LET r == RoundDiv(acc.total_grade_points, acc.total_credit_hours)
       IN IF FitsDecimal32(r) THEN Returned(r) ELSE Raised("numeric_value_out_of_range")

\* (a return that divides without looking at the credit total)
GpaReturnUnguarded(acc) == GpaDivide(acc)

\* IF total_credit_hours = 0 THEN RETURN 0.00; RETURN ROUND(points / credits, 2)
GpaReturn(acc) ==
  IF acc.total_credit_hours = 0 THEN Returned(0) ELSE GpaDivide(acc)

\* order: the sequence in which the FOR loop visits the selected rows; pick:
\* for each visited module the row LIMIT 1 returns (unspecified without ORDER BY)
calculate_gpa(p_user_id, p_semester_id, order, pick) ==
  GpaReturn(GpaLoop(p_user_id, order, pick, 1,
                    [total_grade_points |-> 0, total_credit_hours |-> 0,
                     gpa_value |-> NULL]))

\* every visiting order of a set of rows
Orders(S) ==
  { o \in [1..Cardinality(S) -> S] : \A i, j \in 1..Cardinality(S) : o[i] = o[j] => i = j }

\* every outcome of the LIMIT 1 lookups for the modules of S
Picks(p_user_id, S) ==
  { p \in [{m.id : m \in S} -> {NULL} \cup {Some(gc) : gc \in OwnRows(grading_criteria, p_user_id)}] :
      \A m \in S :
        LET found == MatchingCriteria(p_user_id, m.grade)
        IN IF found = {} THEN p[m.id] = NULL
           ELSE p[m.id] # NULL /\ ValueOf(p[m.id]) \in found }

\* every value calculate_gpa can return on the current snapshot
GpaOutcomes(p_user_id, p_semester_id) ==
  LET S == SelectedModules(p_user_id, p_semester_id)
  IN { calculate_gpa(p_user_id, p_semester_id, o, p) :
         o \in Orders(S), p \in Picks(p_user_id, S) }


(* ------------------------------- inputs ------------------------------- *)
\* what the setup form's fields may hold: a label or a blank; a number input
\* holds a number's text or nothing
FormGradeNames == {<<"A">>, <<" ">>}
FormGpaValues == {<<"4", ".", "0", "0">>, <<"-", "1", ".", "0", "0">>, <<>>}
\* rows of the setup form when it is saved
MaxFormRows == 2
Forms ==
  UNION { [1..n -> [grade_name : FormGradeNames, gpa_value : FormGpaValues]]
          : n \in 1..MaxFormRows }
\* the credit-hours field: type="number" min="1" required
FormCreditHours == {<<"3">>}
\* the values of the grade Select: a label of the scale, or still empty
FormGrades == {trim(g) : g \in FormGradeNames}
\* the attempt types picked in the dialog: a counted one and the dropped one
FormAttemptTypes == {"first_attempt", "dropped"}

\* what a client sends to the store's tables directly.  The first user's
\* scale arrives in one INSERT; the second user has one row of each kind
StoreScaleInputs(uid) ==
  IF uid = "u1"
  THEN { <<[grade_name |-> <<"A">>, gpa_value |-> 4000]>>,
         <<[grade_name |-> <<"A">>, gpa_value |-> 4000],
           [grade_name |-> <<"B">>, gpa_value |-> 3000]>>,
         <<[grade_name |-> <<"A">>, gpa_value |-> 4000],
           [grade_name |-> <<"A">>, gpa_value |-> 3000]>> }
  ELSE { <<[grade_name |-> <<"A">>, gpa_value |-> 3000]>> }
StoreModuleInputs(uid) ==
  IF uid = "u1"
  THEN { [credit_hours |-> 3, grade |-> <<"A">>, attempt_type |-> "first_attempt"],
         [credit_hours |-> 4, grade |-> <<"B">>, attempt_type |-> "first_attempt"],
         [credit_hours |-> 4, grade |-> <<"B">>, attempt_type |-> "repeat"],
         [credit_hours |-> 4, grade |-> <<>>, attempt_type |-> "first_attempt"],
         [credit_hours |-> 3, grade |-> <<"A">>, attempt_type |-> "dropped"],
         [credit_hours |-> 4, grade |-> <<"B">>, attempt_type |-> "dropped"] }
  ELSE { [credit_hours |-> 4, grade |-> <<"A">>, attempt_type |-> "first_attempt"] }

(* -------------------------------- Init -------------------------------- *)
\* empty tables and freshly mounted pages; users counts the accounts of
\* auth.users
InitWith(registered) ==
  /\ grading_criteria = {}
  /\ semesters = {}
  /\ modules = {}
  /\ profiles = {}
  /\ nextId = [grading_criteria |-> 1, semesters |-> 1, modules |-> 1,
               profiles |-> 1, users |-> registered + 1]
  /\ hasGradingCriteria = [s \in Sessions |-> FALSE]
  /\ semestersState = [s \in Sessions |-> {}]
  /\ pc = [s \in Sessions |-> "idle"]
  /\ semesterToDelete = [s \in Sessions |-> NULL]
  /\ showConfirmationDialog = FALSE
  /\ authToast = NULL
  /\ profile = [s \in Sessions |-> NULL]
  /\ page = [s \in Sessions |-> 1]
  /\ totalPages = [s \in Sessions |-> 1]
  /\ leaderboard = [s \in Sessions |-> <<>>]
  /\ loading = [s \in Sessions |-> TRUE]
  /\ loads = [s \in Sessions |-> {}]
  /\ currentGPA = [s \in Sessions |-> 0]
  /\ cumulativeGPA = [s \in Sessions |-> 0]
  /\ setupToast = [s \in Sessions |-> NULL]
  /\ setupLoading = [s \in Sessions |-> FALSE]

\* the two users hold accounts (their profile rows were not created)
Init == InitWith(Cardinality(Users))

\* nobody has signed up yet
InitEmpty == InitWith(0)

(* --------------------------- client handlers -------------------------- *)
\* SemesterOverview.loadSemesters: select * from semesters where user_id = userId,
\* read from the table as the request finds it
loadSemesters(s, table) == OwnRows(table, SessionUser(s))

\* Dashboard getSession -> checkGradingCriteria; with criteria present the
\* SemesterOverview mounts and loads the semesters
LoadDashboard(s) ==
  /\ pc[s] = "idle"
  /\ LET has == OwnRows(grading_criteria, SessionUser(s)) # {}
     IN /\ hasGradingCriteria' = [hasGradingCriteria EXCEPT ![s] = has]
        /\ semestersState' =
             [semestersState EXCEPT ![s] = IF has THEN loadSemesters(s, semesters) ELSE {}]
  /\ UNCHANGED <<storeVars, pc, semesterToDelete>>

\* Dashboard getSession when the query of checkGradingCriteria ends with an
\* error: the catch branch logs it, hasGradingCriteria keeps its initial
\* false and the dashboard renders the setup form
LoadDashboard_checkError(s) ==
  /\ pc[s] = "idle"
  /\ hasGradingCriteria' = [hasGradingCriteria EXCEPT ![s] = FALSE]
  /\ semestersState' = [semestersState EXCEPT ![s] = {}]
  /\ UNCHANGED <<storeVars, pc, semesterToDelete>>

\* (a filter that does not look at the grade name)
ValidCriteriaAnyName(criteria) ==
  SelectSeq(criteria,
            LAMBDA c : /\ trim(c.gpa_value) # <<>>
                       /\ ~isNaN(parseFloat(c.gpa_value)))

\* GradingCriteriaSetup.saveCriteria: the filter of the valid rows
ValidCriteria(criteria) ==
  SelectSeq(criteria,
            LAMBDA c : /\ trim(c.grade_name) # <<>>
                       /\ trim(c.gpa_value) # <<>>
                       /\ ~isNaN(parseFloat(c.gpa_value)))

\* the rows saveCriteria sends to the store
CriteriaPayload(userId, validCriteria) ==
  [i \in 1..Len(validCriteria) |->
     [user_id |-> userId,
      grade_name |-> trim(validCriteria[i].grade_name),
      gpa_value |-> ValueOf(parseFloat(validCriteria[i].gpa_value))]]

saveCriteria(s, criteria) ==
  /\ pc[s] = "idle"
  /\ ~hasGradingCriteria[s]
  /\ LET userId == SessionUser(s)
         validCriteria == ValidCriteria(criteria)
         rows == CriteriaPayload(userId, validCriteria)
     IN IF Len(validCriteria) = 0 \/ ~CriteriaInsertAllowed(userId, rows)
        THEN UNCHANGED <<storeVars, uiVars>>
        ELSE /\ grading_criteria' = CriteriaInserted(rows)
             /\ nextId' = [nextId EXCEPT
                             !.grading_criteria = nextId.grading_criteria + Len(rows)]
             /\ UNCHANGED <<semesters, modules>>
             /\ hasGradingCriteria' = [hasGradingCriteria EXCEPT ![s] = TRUE]
             /\ semestersState' = [semestersState EXCEPT ![s] = loadSemesters(s, semesters)]
             /\ UNCHANGED <<pc, semesterToDelete>>

\* the setup form with its toast and loading flag.  saveCriteria begins with
\* setLoading(true), which disables the Save button
saveCriteria_begin(s) ==
  /\ pc[s] = "idle"
  /\ ~hasGradingCriteria[s]
  /\ ~setupLoading[s]
  /\ setupLoading' = [setupLoading EXCEPT ![s] = TRUE]
  /\ UNCHANGED <<storeVars, uiVars, setupToast>>

\* what saveCriteria throws: its own error when the filter leaves no row, the
\* error of the insert when the store rejects the rows; NULL when it succeeds
saveCriteriaError(userId, criteria) ==
  IF Len(ValidCriteria(criteria)) = 0
  THEN Some("Please add at least one valid grading criteria")
  ELSE IF ~CriteriaInsertAllowed(userId, CriteriaPayload(userId, ValidCriteria(criteria)))
  THEN Some("numeric field overflow")
  ELSE NULL

\* the rest of saveCriteria: filter, insert, the success toast and
\* onComplete, or the error toast of the catch branch; finally
\* setLoading(false)
saveCriteria_end(s, criteria) ==
  /\ setupLoading[s]
  /\ saveCriteria(s, criteria)
  /\ LET error == saveCriteriaError(SessionUser(s), criteria)
     IN setupToast' = [setupToast EXCEPT ![s] =
                         IF error = NULL
                         THEN Some("Grading criteria saved successfully!")
                         ELSE error]
  /\ setupLoading' = [setupLoading EXCEPT ![s] = FALSE]


\* the INSERT of AddSemesterDialog.handleSubmit, then onSemesterAdded
AddSemesterInsert(s, is_current) ==
  /\ semesters' = SemesterInserted(SessionUser(s), is_current)
  /\ nextId' = [nextId EXCEPT !.semesters = nextId.semesters + 1]
  /\ semestersState' = [semestersState EXCEPT ![s] = loadSemesters(s, semesters')]
  /\ pc' = [pc EXCEPT ![s] = "idle"]
  /\ UNCHANGED <<grading_criteria, modules, hasGradingCriteria, semesterToDelete>>

\* AddSemesterDialog.handleSubmit up to its first awaited call: with
\* is_current the UPDATE that clears the flag, else the INSERT itself
AddSemester_handleSubmit(s, is_current) ==
  /\ pc[s] = "idle"
  /\ hasGradingCriteria[s]
  /\ IF is_current
     THEN /\ semesters' = SemestersCleared(SessionUser(s), SessionUser(s))
          /\ pc' = [pc EXCEPT ![s] = "addSemester_insert"]
          /\ UNCHANGED <<grading_criteria, modules, nextId, hasGradingCriteria,
                         semestersState, semesterToDelete>>
     ELSE AddSemesterInsert(s, FALSE)

\* the same first call when the store answers the UPDATE with an error: the
\* response is not looked at, nothing was cleared, the handler goes on
AddSemester_clearFails(s) ==
  /\ pc[s] = "idle"
  /\ hasGradingCriteria[s]
  /\ pc' = [pc EXCEPT ![s] = "addSemester_insert"]
  /\ UNCHANGED <<storeVars, hasGradingCriteria, semestersState, semesterToDelete>>

\* AddSemesterDialog.handleSubmit from start to finish when nothing else
\* runs in between and the store answers the INSERT with an error: the
\* UPDATE of an is_current submit has been applied, then throw, toast, no
\* onSemesterAdded
AddSemester_insertError(s, is_current) ==
  /\ pc[s] = "idle"
  /\ hasGradingCriteria[s]
  /\ semesters' = IF is_current THEN SemestersCleared(SessionUser(s), SessionUser(s))
                                ELSE semesters
  /\ UNCHANGED <<grading_criteria, modules, nextId, uiVars>>

\* AddSemesterDialog.handleSubmit after the UPDATE: the INSERT with is_current
AddSemester_insert(s) ==
  /\ pc[s] = "addSemester_insert"
  /\ AddSemesterInsert(s, TRUE)

\* the grades the add-module dialog offers (loadGradingCriteria), and the
\* empty grade of an untouched Select
AvailableGrades(userId) ==
  {gc.grade_name : gc \in OwnRows(grading_criteria, userId)} \cup {<<>>}

\* AddModuleDialog.handleSubmit for the card of semester semesterId
AddModule_handleSubmit(s, semesterId, credit_hours, grade, attempt_type) ==
  /\ pc[s] = "idle"
  /\ hasGradingCriteria[s]
  /\ \E sem \in semestersState[s] : sem.id = semesterId
  /\ grade \in AvailableGrades(SessionUser(s))
  /\ ~isNaN(parseInt(credit_hours)) /\ ValueOf(parseInt(credit_hours)) >= 1
  /\ LET row == [user_id |-> SessionUser(s),
                 semester_id |-> semesterId,
                 credit_hours |-> ValueOf(parseInt(credit_hours)),
                 grade |-> grade,
                 attempt_type |-> attempt_type]
     IN IF ModuleInsertAllowed(SessionUser(s), row)
        THEN /\ modules' = ModuleInserted(row)
             /\ nextId' = [nextId EXCEPT !.modules = nextId.modules + 1]
             /\ UNCHANGED <<grading_criteria, semesters, uiVars>>
        ELSE UNCHANGED vars

\* ModuleList.handleDelete for a module listed on one of the session's cards
handleDelete(s, moduleId) ==
  /\ pc[s] = "idle"
  /\ hasGradingCriteria[s]
  /\ \E m \in OwnRows(modules, SessionUser(s)) :
       /\ m.id = moduleId
       /\ \E sem \in semestersState[s] : sem.id = m.semester_id
  /\ modules' = modules \ ModuleDeleted(SessionUser(s), moduleId)
  /\ UNCHANGED <<grading_criteria, semesters, nextId, uiVars>>

\* confirmDeleteSemester up to the DELETE of the semester's modules
confirmDeleteSemester(s, semester) ==
  /\ pc[s] = "idle"
  /\ hasGradingCriteria[s]
  /\ semester \in semestersState[s]
  /\ modules' = modules \ ModulesOfSemesterDeleted(SessionUser(s), semester.id)
  /\ pc' = [pc EXCEPT ![s] = "deleteSemester_semester"]
  /\ semesterToDelete' = [semesterToDelete EXCEPT ![s] = Some(semester.id)]
  /\ UNCHANGED <<grading_criteria, semesters, nextId, hasGradingCriteria, semestersState>>

\* confirmDeleteSemester after it: the DELETE of the semester, the reload
confirmDeleteSemester_semester(s) ==
  /\ pc[s] = "deleteSemester_semester"
  /\ semesters' = semesters \ SemestersDeleted(SessionUser(s), ValueOf(semesterToDelete[s]))
  /\ modules' = modules \ CascadeDeleted(SemestersDeleted(SessionUser(s),
                                                          ValueOf(semesterToDelete[s])))
  /\ semestersState' = [semestersState EXCEPT ![s] = loadSemesters(s, semesters')]
  /\ pc' = [pc EXCEPT ![s] = "idle"]
  /\ semesterToDelete' = [semesterToDelete EXCEPT ![s] = NULL]
  /\ UNCHANGED <<grading_criteria, nextId, hasGradingCriteria>>

\* confirmDeleteSemester from start to finish when nothing else runs in
\* between, for each way its two requests can end: "ok", "modulesError"
\* (the first DELETE fails: throw, toast) or "semesterError" (the second
\* DELETE fails: throw, toast, no reload)
DeleteResults == {"ok", "modulesError", "semesterError"}
confirmDeleteSemester_run(s, semester, result) ==
  /\ pc[s] = "idle"
  /\ hasGradingCriteria[s]
  /\ semester \in semestersState[s]
  /\ LET userId == SessionUser(s)
         modulesLeft == modules \ ModulesOfSemesterDeleted(userId, semester.id)
         gone == SemestersDeleted(userId, semester.id)
     IN IF result = "modulesError"
        THEN UNCHANGED vars
        ELSE IF result = "semesterError"
        THEN /\ modules' = modulesLeft
             /\ UNCHANGED <<grading_criteria, semesters, nextId, uiVars>>
        ELSE /\ modules' = modulesLeft \ CascadeDeleted(gone)
             /\ semesters' = semesters \ gone
             /\ semestersState' = [semestersState EXCEPT ![s] = loadSemesters(s, semesters')]
             /\ UNCHANGED <<grading_criteria, nextId, hasGradingCriteria, pc, semesterToDelete>>

\* semesters.find(s => s.is_current) on a list ordered by created_at
\* descending: the newest semester flagged current, if any
FindCurrent(list) ==
  LET flagged == {sem \in list : sem.is_current}
  IN IF flagged = {} THEN NULL
     ELSE Some(CHOOSE sem \in flagged : \A other \in flagged : other.id <= sem.id)

\* setCurrentGPA / setCumulativeGPA for an rpc response: the number when
\* data is not null, else no call of the setter
GpaShown(before, response) ==
  IF "value" \in DOMAIN response THEN response.value ELSE before

\* SemesterOverview.calculateGPAs as called at the end of a handler:
\* seen is the semesters list of the render the call was made in (the call
\* does not wait for loadSemesters), before is what the two cards hold, and
\* the two rpc calls read the store as the handler leaves it
calculateGPAs(s, seen, before) ==
  LET userId == SessionUser(s)
      currentSemester == FindCurrent(seen)
  IN /\ IF currentSemester = NULL
        THEN currentGPA' = [currentGPA EXCEPT ![s] = before.currentGPA]
        ELSE \E p_semester_id \in {ValueOf(currentSemester).id}, shown \in {before.currentGPA} :
               \E response \in GpaOutcomes(userId, Some(p_semester_id))' :
                 currentGPA' = [currentGPA EXCEPT ![s] = GpaShown(shown, response)]
     /\ \E shown \in {before.cumulativeGPA} :
          \E response \in GpaOutcomes(userId, NULL)' :
            cumulativeGPA' = [cumulativeGPA EXCEPT ![s] = GpaShown(shown, response)]

\* useState<number>(0) of a SemesterOverview that has just mounted
MountedGPA == [currentGPA |-> 0, cumulativeGPA |-> 0]
ShownGPA(s) == [currentGPA |-> currentGPA[s], cumulativeGPA |-> cumulativeGPA[s]]

\* the dashboard's handlers together with the calculateGPAs that ends them:
\* the useEffect of a mounting SemesterOverview (loadSemesters and
\* calculateGPAs in the first render, whose list is empty), handleSemesterAdded,
\* handleSemesterUpdated and the end of confirmDeleteSemester
Overview_mount(s) ==
  /\ LoadDashboard(s)
  /\ IF hasGradingCriteria'[s] THEN calculateGPAs(s, {}, MountedGPA)
     ELSE /\ currentGPA' = [currentGPA EXCEPT ![s] = 0]
          /\ cumulativeGPA' = [cumulativeGPA EXCEPT ![s] = 0]

Overview_saveCriteria(s, criteria) ==
  /\ saveCriteria(s, criteria)
  /\ IF hasGradingCriteria'[s] THEN calculateGPAs(s, {}, MountedGPA)
     ELSE UNCHANGED overviewVars

Overview_addSemester(s, is_current) ==
  /\ AddSemester_handleSubmit(s, is_current)
  /\ IF is_current THEN UNCHANGED overviewVars
     ELSE calculateGPAs(s, semestersState[s], ShownGPA(s))

Overview_addSemester_insert(s) ==
  /\ AddSemester_insert(s)
  /\ calculateGPAs(s, semestersState[s], ShownGPA(s))

Overview_addModule(s, semesterId, credit_hours, grade, attempt_type) ==
  /\ AddModule_handleSubmit(s, semesterId, credit_hours, grade, attempt_type)
  /\ IF modules' # modules THEN calculateGPAs(s, semestersState[s], ShownGPA(s))
     ELSE UNCHANGED overviewVars

Overview_deleteModule(s, moduleId) ==
  /\ handleDelete(s, moduleId)
  /\ calculateGPAs(s, semestersState[s], ShownGPA(s))

Overview_deleteSemester(s, semester) ==
  /\ confirmDeleteSemester(s, semester)
  /\ UNCHANGED overviewVars

Overview_deleteSemester_semester(s) ==
  /\ confirmDeleteSemester_semester(s)
  /\ calculateGPAs(s, semestersState[s], ShownGPA(s))

(* ------------------------- direct store requests ---------------------- *)
\* an authenticated client calling the tables' REST interface itself
StoreInsertCriteria(uid, scale) ==
  LET rows == [i \in 1..Len(scale) |->
                 [user_id |-> uid, grade_name |-> scale[i].grade_name,
                  gpa_value |-> scale[i].gpa_value]]
  IN /\ CriteriaInsertAllowed(uid, rows)
     /\ grading_criteria' = CriteriaInserted(rows)
     /\ nextId' = [nextId EXCEPT
                     !.grading_criteria = nextId.grading_criteria + Len(rows)]
     /\ UNCHANGED <<semesters, modules, uiVars>>

StoreInsertSemester(uid, is_current) ==
  /\ semesters' = SemesterInserted(uid, is_current)
  /\ nextId' = [nextId EXCEPT !.semesters = nextId.semesters + 1]
  /\ UNCHANGED <<grading_criteria, modules, uiVars>>

StoreDeleteSemester(uid, sid) ==
  /\ SemestersDeleted(uid, sid) # {}
  /\ semesters' = semesters \ SemestersDeleted(uid, sid)
  /\ modules' = modules \ CascadeDeleted(SemestersDeleted(uid, sid))
  /\ UNCHANGED <<grading_criteria, nextId, uiVars>>

StoreInsertModule(uid, semester_id, credit_hours, grade, attempt_type) ==
  LET row == [user_id |-> uid, semester_id |-> semester_id,
              credit_hours |-> credit_hours, grade |-> grade,
              attempt_type |-> attempt_type]
  IN /\ ModuleInsertAllowed(uid, row)
     /\ modules' = ModuleInserted(row)
     /\ nextId' = [nextId EXCEPT !.modules = nextId.modules + 1]
     /\ UNCHANGED <<grading_criteria, semesters, uiVars>>

\* UPDATE modules SET credit_hours, grade, attempt_type WHERE id = mid
StoreUpdateModule(uid, mid, new) ==
  /\ ModuleDeleted(uid, mid) # {}
  /\ modules' = { IF m.id = mid /\ m.user_id = uid
                  THEN [m EXCEPT !.credit_hours = new.credit_hours,
                                 !.grade = new.grade,
                                 !.attempt_type = new.attempt_type]
                  ELSE m : m \in modules }
  /\ modules' # modules
  /\ UNCHANGED <<grading_criteria, semesters, nextId, uiVars>>

StoreDeleteModule(uid, mid) ==
  /\ ModuleDeleted(uid, mid) # {}
  /\ modules' = modules \ ModuleDeleted(uid, mid)
  /\ UNCHANGED <<grading_criteria, semesters, nextId, uiVars>>

(* ------------------------------ profiles ------------------------------ *)
\* profiles rows: [id, user_id, university_name, course_name, registration_number]
\* the accounts of auth.users: the ids handed out so far
Registered(uid) == \E i \in 1..(nextId.users - 1) : AccountIds[i] = uid

\* policy "Users can create their own profile": WITH CHECK (auth.uid() = user_id);
\* auth_uid is NULL for a request without a session
ProfileCheck(auth_uid, row) == auth_uid = Some(row.user_id)

\* (a table without the UNIQUE constraint)
RegistrationAny(row, others) == TRUE

\* registration_number TEXT NOT NULL UNIQUE
RegistrationUnique(row, others) ==
  \A p \in others : p.registration_number # row.registration_number

\* INSERT INTO profiles: NULL when the row is stored, else the error; the
\* policy is checked before the constraints
ProfileInsertError(auth_uid, row) ==
  IF ~ProfileCheck(auth_uid, row)
  THEN Some("new row violates row-level security policy")
  ELSE IF ~RegistrationUnique(row, profiles)
  THEN Some("duplicate key value violates unique constraint")
  ELSE NULL

ProfileInserted(row) ==
  profiles \cup {[id |-> nextId.profiles,
                  user_id |-> row.user_id,
                  university_name |-> row.university_name,
                  course_name |-> row.course_name,
                  registration_number |-> row.registration_number]}

\* SELECT on profiles: the policies "view their own profile" and "view
\* leaderboard for same university and course", either one admitting a row
VisibleProfiles(uid) ==
  { r \in profiles :
      \/ r.user_id = uid
      \/ \E p \in profiles : /\ p.user_id = uid
                            /\ p.university_name = r.university_name
                            /\ p.course_name = r.course_name }

\* count_leaderboard_entries: SECURITY DEFINER, no policy applies
count_leaderboard_entries(p_university_name, p_course_name) ==
  Cardinality({ p \in profiles : /\ p.university_name = p_university_name
                                 /\ p.course_name = p_course_name })

\* get_leaderboard with p_limit at least the number of matching rows and
\* p_offset 0: the rows it can return, each with a value of calculate_gpa
\* (SECURITY DEFINER, no policy applies; a failing calculate_gpa fails the call)
get_leaderboard(p_university_name, p_course_name) ==
  UNION { { [id |-> p.id, registration_number |-> p.registration_number, gpa |-> r]
            : r \in GpaOutcomes(p.user_id, NULL) }
          : p \in { q \in profiles : /\ q.university_name = p_university_name
                                     /\ q.course_name = p_course_name } }

(* ------------------------------- signup ------------------------------- *)
\* Auth.handleSignup with the form's university, course and registration
\* number.  signUp is how supabase.auth.signUp ends: "session" (signed in at
\* once), "confirm" (account created, no session before the e-mail is
\* confirmed) or "error"
handleSignup(form, passwordsMatch, signUp) ==
  /\ UNCHANGED <<grading_criteria, semesters, modules, uiVars, boardVars, overviewVars, setupVars>>
  /\ IF ~passwordsMatch
     THEN /\ authToast' = Some("Passwords do not match")
          /\ UNCHANGED <<profiles, nextId, showConfirmationDialog>>
     ELSE IF signUp = "error"
     THEN /\ authToast' = Some("signUp failed")
          /\ UNCHANGED <<profiles, nextId, showConfirmationDialog>>
     ELSE
       LET user == AccountIds[nextId.users]
           auth_uid == IF signUp = "session" THEN Some(user) ELSE NULL
           row == [user_id |-> user,
                   university_name |-> form.universityName,
                   course_name |-> form.courseName,
                   registration_number |-> form.registrationNumber]
           profileError == ProfileInsertError(auth_uid, row)
       IN IF profileError # NULL
          THEN /\ nextId' = [nextId EXCEPT !.users = nextId.users + 1]
               /\ authToast' = profileError
               /\ UNCHANGED <<profiles, showConfirmationDialog>>
          ELSE /\ nextId' = [nextId EXCEPT !.users = nextId.users + 1,
                                           !.profiles = nextId.profiles + 1]
               /\ profiles' = ProfileInserted(row)
               /\ showConfirmationDialog' = TRUE
               /\ UNCHANGED authToast

\* a signed-in client inserting a profiles row itself
StoreInsertProfile(uid, row) ==
  /\ ProfileInsertError(Some(uid), row) = NULL
  /\ profiles' = ProfileInserted(row)
  /\ nextId' = [nextId EXCEPT !.profiles = nextId.profiles + 1]
  /\ UNCHANGED <<grading_criteria, semesters, modules, uiVars, authVars, boardVars,
                 overviewVars, setupVars>>

\* UPDATE profiles SET university_name, course_name, registration_number, user_id
\* WHERE id = pid: policy "Users can update their own profile" on the old and
\* on the new row, and the UNIQUE constraint
StoreUpdateProfile(uid, pid, new) ==
  \E old \in profiles :
    /\ old.id = pid
    /\ old.user_id = uid
    /\ new.user_id = uid
    /\ RegistrationUnique(new, profiles \ {old})
    /\ profiles' = (profiles \ {old}) \cup
                     {[id |-> old.id,
                       user_id |-> new.user_id,
                       university_name |-> new.university_name,
                       course_name |-> new.course_name,
                       registration_number |-> new.registration_number]}
    /\ profiles' # profiles
    /\ UNCHANGED <<storeVars, uiVars, authVars, boardVars, overviewVars, setupVars>>

(* ----------------------------- leaderboard ---------------------------- *)
itemsPerPage == 10

\* Leaderboard.loadProfile: select * from profiles where user_id = userId,
\* .single(): the row when there is exactly one, else an error
LoadedProfile(s) ==
  LET own == {r \in VisibleProfiles(SessionUser(s)) : r.user_id = SessionUser(s)}
  IN IF Cardinality(own) = 1 THEN Some(CHOOSE r \in own : TRUE) ELSE NULL

\* the rows both queries of loadLeaderboard filter from what the viewer may read
FilteredProfiles(s, prof) ==
  { r \in VisibleProfiles(SessionUser(s)) :
      /\ r.university_name = prof.university_name
      /\ r.course_name = prof.course_name }

\* Math.ceil(count / itemsPerPage)
PagesOf(count) == (count + itemsPerPage - 1) \div itemsPerPage

\* .range((page - 1) * itemsPerPage, page * itemsPerPage - 1) of a query with
\* no ORDER BY: the rows at those positions of whatever order the store
\* returns, that is any set of the window's size
RangeSize(count, pg) ==
  LET from == (pg - 1) * itemsPerPage
  IN IF count <= from THEN 0
     ELSE IF count - from < itemsPerPage THEN count - from ELSE itemsPerPage
RangeRows(F, pg) ==
  LET n == RangeSize(Cardinality(F), pg)
  IN IF n = Cardinality(F) THEN {F}
     ELSE IF n = 0 THEN {{}}
     ELSE {W \in SUBSET F : Cardinality(W) = n}

\* gpaData !== null ? parseFloat(gpaData.toString()) : 0 for the rpc on
\* entry.user_id; a failed call (one the store rejects, or one of failures)
\* has data null
EntryGpas(entry, failures) ==
  IF entry.user_id \in failures THEN {0}
  ELSE { IF "value" \in DOMAIN r THEN r.value ELSE 0
         : r \in GpaOutcomes(entry.user_id, NULL) }

\* leaderboardWithGPA: every way the calls of Promise.all can end
RECURSIVE LeaderboardWithGPA(_, _)
LeaderboardWithGPA(rows, failures) ==
  IF rows = {} THEN {{}}
  ELSE LET entry == CHOOSE r \in rows : TRUE
       IN { rest \cup {[id |-> entry.id, user_id |-> entry.user_id,
                        university_name |-> entry.university_name,
                        course_name |-> entry.course_name, gpa |-> g]}
            : rest \in LeaderboardWithGPA(rows \ {entry}, failures),
              g \in EntryGpas(entry, failures) }

\* (a page left in the order the query returned)
LeaderboardUnsorted(entries) == IF entries = {} THEN <<>> ELSE <<entries>>

\* sort((a, b) => b.gpa - a.gpa): descending GPA; entries of equal GPA keep
\* the unspecified order of the query, so the result is the sequence of the
\* groups of equal GPA
RECURSIVE SortByGpa(_)
SortByGpa(entries) ==
  IF entries = {} THEN <<>>
  ELSE LET top == CHOOSE g \in {e.gpa : e \in entries} : \A e \in entries : e.gpa <= g
           first == {e \in entries : e.gpa = top}
       IN <<first>> \o SortByGpa(entries \ first)

\* Leaderboard.loadLeaderboard for the profile and page given
loadLeaderboard(s, prof, pg, failures) ==
  LET F == FilteredProfiles(s, prof)
  IN /\ totalPages' = [totalPages EXCEPT ![s] = PagesOf(Cardinality(F))]
     /\ \E rows \in RangeRows(F, pg) :
          \E entries \in LeaderboardWithGPA(rows, failures) :
            leaderboard' = [leaderboard EXCEPT ![s] = SortByGpa(entries)]

\* the Leaderboard page mounts: getSession, loadProfile, and with a profile
\* the first loadLeaderboard.  The profile query ends with the row, or with
\* an error (no single row, or a request the store does not serve), which
\* leaves the page without a profile
Leaderboard_getSession(s, failures) ==
  /\ Registered(SessionUser(s))
  /\ \E data \in {LoadedProfile(s), NULL} :
       /\ profile' = [profile EXCEPT ![s] = data]
       /\ IF data = NULL
          THEN /\ totalPages' = [totalPages EXCEPT ![s] = 1]
               /\ leaderboard' = [leaderboard EXCEPT ![s] = <<>>]
          ELSE loadLeaderboard(s, ValueOf(data), 1, failures)
  /\ page' = [page EXCEPT ![s] = 1]
  /\ loading' = [loading EXCEPT ![s] = FALSE]
  /\ UNCHANGED <<storeVars, uiVars, profiles, authVars, loads, overviewVars, setupVars>>

\* a click on page p of the pagination, and the loadLeaderboard it triggers
setPage(s, p, failures) ==
  /\ profile[s] # NULL
  /\ leaderboard[s] # <<>>
  /\ totalPages[s] > 1
  /\ p \in 1..totalPages[s]
  /\ p # page[s]
  /\ page' = [page EXCEPT ![s] = p]
  /\ loadLeaderboard(s, ValueOf(profile[s]), p, failures)
  /\ UNCHANGED <<storeVars, uiVars, profiles, authVars, profile, loading, loads, overviewVars, setupVars>>

\* the page with its requests in flight: loads holds the pages whose
\* loadLeaderboard has started and not yet returned
\* (the pagination rendered whatever the loading flag says)
PaginationShownWhileLoading(s) ==
  /\ leaderboard[s] # <<>>
  /\ totalPages[s] > 1

\* the pagination is rendered when the spinner is not (loading is false),
\* the list has entries and there is more than one page
PaginationShown(s) ==
  /\ ~loading[s]
  /\ leaderboard[s] # <<>>
  /\ totalPages[s] > 1

\* the page mounts: fresh state, getSession and loadProfile; with a profile
\* row the effect on [profile, page] starts loadLeaderboard for page 1, which
\* sets loading.  Requests of an instance that was unmounted set no state
Leaderboard_loadProfile(s) ==
  /\ Registered(SessionUser(s))
  /\ \E data \in {LoadedProfile(s), NULL} :
       /\ profile' = [profile EXCEPT ![s] = data]
       /\ loading' = [loading EXCEPT ![s] = data # NULL]
       /\ loads' = [loads EXCEPT ![s] = IF data = NULL THEN {} ELSE {1}]
  /\ page' = [page EXCEPT ![s] = 1]
  /\ totalPages' = [totalPages EXCEPT ![s] = 1]
  /\ leaderboard' = [leaderboard EXCEPT ![s] = <<>>]
  /\ UNCHANGED <<storeVars, uiVars, profiles, authVars, overviewVars, setupVars>>

\* a click on page p of the pagination: setPage(p), and the effect on
\* [profile, page] starts loadLeaderboard, which sets loading
PaginationLink_onClick(s, p) ==
  /\ profile[s] # NULL
  /\ PaginationShown(s)
  /\ p \in 1..totalPages[s]
  /\ p # page[s]
  /\ page' = [page EXCEPT ![s] = p]
  /\ loading' = [loading EXCEPT ![s] = TRUE]
  /\ loads' = [loads EXCEPT ![s] = @ \cup {p}]
  /\ UNCHANGED <<storeVars, uiVars, profiles, authVars, profile, totalPages,
                 leaderboard, overviewVars, setupVars>>

\* the loadLeaderboard started for page pg returns: setTotalPages,
\* setLeaderboard with the rows of pg, and setLoading(false)
loadLeaderboard_return(s, pg) ==
  /\ pg \in loads[s]
  /\ profile[s] # NULL
  /\ loadLeaderboard(s, ValueOf(profile[s]), pg, {})
  /\ loading' = [loading EXCEPT ![s] = FALSE]
  /\ loads' = [loads EXCEPT ![s] = @ \ {pg}]
  /\ UNCHANGED <<storeVars, uiVars, profiles, authVars, profile, page, overviewVars, setupVars>>

(* --------------------------- specifications --------------------------- *)
\* the bounds, as conditions on the next free ids
CriteriaRoom(n) == nextId.grading_criteria + n - 1 <= MaxCriteria
SemesterRoom == nextId.semesters <= MaxSemesters

\* the handlers a session may run next
SessionNext(s) ==
  \/ LoadDashboard(s)
  \/ \E criteria \in Forms :
       saveCriteria(s, criteria) /\ CriteriaRoom(Len(ValidCriteria(criteria)))
  \/ \E is_current \in BOOLEAN : SemesterRoom /\ AddSemester_handleSubmit(s, is_current)
  \/ SemesterRoom /\ AddSemester_insert(s)
  \/ \E semesterId \in 1..MaxSemesters, credit_hours \in FormCreditHours,
        grade \in FormGrades, attempt_type \in FormAttemptTypes :
       /\ nextId.modules <= MaxDialogModules
       /\ AddModule_handleSubmit(s, semesterId, credit_hours, grade, attempt_type)
  \/ \E moduleId \in 1..MaxDialogModules : handleDelete(s, moduleId)
  \/ \E semester \in semestersState[s] : confirmDeleteSemester(s, semester)
  \/ confirmDeleteSemester_semester(s)

\* the application: concurrent sessions running the handlers
Next == (\E s \in Sessions : SessionNext(s)) /\ UNCHANGED accountVars

Spec == Init /\ [][Next]_vars

\* the store alone: the requests the policies and constraints admit; each
\* user sends a scale once, the first user owns the semesters
StoreRequest(uid) ==
    \/ \E scale \in StoreScaleInputs(uid) :
         OwnRows(grading_criteria, uid) = {} /\ StoreInsertCriteria(uid, scale)
    \/ uid = "u1" /\ SemesterRoom /\ StoreInsertSemester(uid, FALSE)
    \/ \E sid \in 1..MaxSemesters : StoreDeleteSemester(uid, sid)
    \/ \E semester_id \in 1..MaxSemesters, m \in StoreModuleInputs(uid) :
         /\ nextId.modules <= MaxModules
         /\ StoreInsertModule(uid, semester_id, m.credit_hours, m.grade, m.attempt_type)
    \/ \E mid \in 1..MaxModules, m \in StoreModuleInputs(uid) :
         StoreUpdateModule(uid, mid, m)
    \/ \E mid \in 1..MaxModules : StoreDeleteModule(uid, mid)

NextStore == (\E uid \in Users : StoreRequest(uid)) /\ UNCHANGED accountVars

SpecStore == Init /\ [][NextStore]_vars

\* one session alone: its handlers run one at a time, each to completion
NextSeq == SessionNext("s1") /\ UNCHANGED accountVars

SpecSeq == Init /\ [][NextSeq]_vars

\* the sessions, and a client deleting semesters directly against the store
NextOpen ==
  \/ Next
  \/ /\ \E uid \in Users, sid \in 1..MaxSemesters : StoreDeleteSemester(uid, sid)
     /\ UNCHANGED accountVars

SpecOpen == Init /\ [][NextOpen]_vars

\* the leaderboard of one programme: students sign up one after another with
\* the same university and course, the last of them enters one graded module,
\* and the first user's sessions browse the leaderboard
MaxBoardAccounts == 11
RegistrationNumbers == <<"R1", "R2", "R3", "R4", "R5", "R6", "R7", "R8", "R9",
                         "R10", "R11", "R12", "R13">>
BoardForm(n) == [universityName |-> "U", courseName |-> "C",
                 registrationNumber |-> RegistrationNumbers[n]]

BoardStudent == AccountIds[MaxBoardAccounts]

NextBoard ==
  \/ /\ nextId.users <= MaxBoardAccounts
     /\ handleSignup(BoardForm(nextId.users), TRUE, "session")
  \/ /\ Registered(BoardStudent) /\ grading_criteria = {}
     /\ StoreInsertCriteria(BoardStudent, <<[grade_name |-> <<"A">>, gpa_value |-> 4000]>>)
     /\ UNCHANGED accountVars
  \/ /\ Registered(BoardStudent) /\ nextId.semesters = 1
     /\ StoreInsertSemester(BoardStudent, FALSE)
     /\ UNCHANGED accountVars
  \/ /\ nextId.modules = 1
     /\ StoreInsertModule(BoardStudent, 1, 3, <<"A">>, "first_attempt")
     /\ UNCHANGED accountVars
  \/ \E s \in Sessions : Leaderboard_getSession(s, {})
  \/ \E s \in Sessions, p \in 1..PagesOf(MaxBoardAccounts) : setPage(s, p, {})

SpecBoard == InitEmpty /\ [][NextBoard]_vars

\* the leaderboard with its requests in flight: the students of one
\* programme sign up, then the first user's sessions open the leaderboard
\* and change pages while the requests return in any order
NextRace ==
  \/ /\ nextId.users <= MaxBoardAccounts
     /\ handleSignup(BoardForm(nextId.users), TRUE, "session")
  \/ \E s \in Sessions :
       /\ nextId.users > MaxBoardAccounts
       /\ Leaderboard_loadProfile(s)
  \/ \E s \in Sessions, p \in 1..PagesOf(MaxBoardAccounts) : PaginationLink_onClick(s, p)
  \/ \E s \in Sessions, pg \in 1..PagesOf(MaxBoardAccounts) : loadLeaderboard_return(s, pg)

SpecRace == InitEmpty /\ [][NextRace]_vars

\* one page of a leaderboard: four students sign up, each with one of two
\* universities; the second and the third save a scale and one graded
\* module; the first user's session opens the leaderboard, and any of the
\* GPA requests of a load may fail
MaxPageAccounts == 4
PageUniversities == {"U", "V"}
PageForm(n, university) == [universityName |-> university, courseName |-> "C",
                            registrationNumber |-> RegistrationNumbers[n]]
PageStudents == {AccountIds[2], AccountIds[3]}
PageScale(uid) ==
  <<[grade_name |-> <<"A">>, gpa_value |-> IF uid = AccountIds[2] THEN 4000 ELSE 3000]>>

PageStudentRequest(uid) ==
  /\ Registered(uid)
  /\ \/ OwnRows(grading_criteria, uid) = {} /\ StoreInsertCriteria(uid, PageScale(uid))
     \/ OwnRows(semesters, uid) = {} /\ StoreInsertSemester(uid, FALSE)
     \/ \E sem \in OwnRows(semesters, uid) :
          /\ OwnRows(modules, uid) = {}
          /\ StoreInsertModule(uid, sem.id, 3, <<"A">>, "first_attempt")
  /\ UNCHANGED accountVars

NextPage ==
  \/ \E university \in PageUniversities :
       /\ nextId.users <= MaxPageAccounts
       /\ handleSignup(PageForm(nextId.users, university), TRUE, "session")
  \/ \E uid \in PageStudents : PageStudentRequest(uid)
  \/ \E failures \in SUBSET PageStudents : Leaderboard_getSession("s1", failures)

SpecPage == InitEmpty /\ [][NextPage]_vars

\* two students and the store: both sign up, each with one of two
\* universities, and then send the requests the policies and constraints
\* admit for scales, semesters, modules and profiles (rows that name another
\* user included, which the policies turn down)
MaxPeerProfiles == 3
PeerRegistrations == {RegistrationNumbers[n] : n \in 1..MaxPeerProfiles}

PeerRequest(uid) ==
  /\ Registered(uid)
  /\ \/ /\ OwnRows(grading_criteria, uid) = {}
        /\ nextId.grading_criteria <= MaxCriteria
        /\ StoreInsertCriteria(uid, PageScale(uid))
        /\ UNCHANGED accountVars
     \/ /\ nextId.semesters = 1
        /\ StoreInsertSemester(uid, FALSE)
        /\ UNCHANGED accountVars
     \/ /\ \E sid \in 1..MaxSemesters : StoreDeleteSemester(uid, sid)
        /\ UNCHANGED accountVars
     \/ /\ \E sid \in 1..MaxSemesters :
             /\ nextId.modules <= Cardinality(Users)
             /\ OwnRows(modules, uid) = {}
             /\ StoreInsertModule(uid, sid, 3, <<"A">>, "first_attempt")
        /\ UNCHANGED accountVars
     \/ /\ \E mid \in 1..Cardinality(Users) : StoreDeleteModule(uid, mid)
        /\ UNCHANGED accountVars
     \/ \E user_id \in Users, university \in PageUniversities,
           registration_number \in PeerRegistrations :
          /\ nextId.profiles <= MaxPeerProfiles
          /\ StoreInsertProfile(uid, [user_id |-> user_id,
                                      university_name |-> university,
                                      course_name |-> "C",
                                      registration_number |-> registration_number])
     \/ \E old \in profiles, user_id \in Users, university \in PageUniversities :
          StoreUpdateProfile(uid, old.id,
                             [user_id |-> user_id,
                              university_name |-> university,
                              course_name |-> "C",
                              registration_number |-> old.registration_number])

NextPeers ==
  \/ \E university \in PageUniversities :
       /\ nextId.users <= Cardinality(Users)
       /\ handleSignup(PageForm(nextId.users, university), TRUE, "session")
  \/ \E uid \in Users : PeerRequest(uid)

SpecPeers == InitEmpty /\ [][NextPeers]_vars

\* signing up: visitors submit the signup form one after another, with a
\* registration number that may be in use, matching passwords or not, and
\* every way supabase.auth.signUp can end; signed-in users also insert and
\* update their profile rows directly
MaxSignups == 3
AuthRegistrations == {RegistrationNumbers[1], RegistrationNumbers[2]}
AuthForms == {[universityName |-> "U", courseName |-> "C", registrationNumber |-> r]
              : r \in AuthRegistrations}
SignUpResults == {"session", "confirm", "error"}

AuthSignup ==
  \E form \in AuthForms, passwordsMatch \in BOOLEAN, signUp \in SignUpResults :
    /\ nextId.users <= MaxSignups
    /\ handleSignup(form, passwordsMatch, signUp)

AuthProfileRequest(uid) ==
  /\ Registered(uid)
  /\ \/ \E registration_number \in AuthRegistrations :
          /\ nextId.profiles <= MaxSignups
          /\ StoreInsertProfile(uid, [user_id |-> uid, university_name |-> "U",
                                      course_name |-> "C",
                                      registration_number |-> registration_number])
     \/ \E old \in profiles, registration_number \in AuthRegistrations :
          StoreUpdateProfile(uid, old.id,
                             [user_id |-> uid, university_name |-> "U",
                              course_name |-> "C",
                              registration_number |-> registration_number])

NextAuth ==
  \/ AuthSignup
  \/ \E i \in 1..MaxSignups : AuthProfileRequest(AccountIds[i])

SpecAuth == InitEmpty /\ [][NextAuth]_vars

\* the store with scales of one and three hundredths, positive and negative,
\* beside a zero entry, and modules of one credit hour: the quotients of
\* calculate_gpa fall halfway between two hundredths
TieScales ==
  { <<[grade_name |-> <<"A">>, gpa_value |-> v], [grade_name |-> <<"B">>, gpa_value |-> 0]>>
    : v \in {10, 30, -10} }
TieGrades == {<<"A">>, <<"B">>}

NextTies ==
  /\ \/ \E scale \in TieScales :
          grading_criteria = {} /\ StoreInsertCriteria("u1", scale)
     \/ SemesterRoom /\ StoreInsertSemester("u1", FALSE)
     \/ \E semester_id \in 1..MaxSemesters, grade \in TieGrades :
          /\ nextId.modules <= MaxModules
          /\ StoreInsertModule("u1", semester_id, 1, grade, "first_attempt")
     \/ \E mid \in 1..MaxModules : StoreDeleteModule("u1", mid)
  /\ UNCHANGED accountVars

SpecTies == Init /\ [][NextTies]_vars

\* one session alone, with a store that may answer a request of the
\* add-semester and delete-semester handlers with an error
NextFail ==
  /\ \/ SessionNext("s1")
     \/ SemesterRoom /\ AddSemester_clearFails("s1")
     \/ \E semester \in semestersState["s1"], result \in DeleteResults :
          confirmDeleteSemester_run("s1", semester, result)
     \/ \E is_current \in BOOLEAN : AddSemester_insertError("s1", is_current)
     \/ LoadDashboard_checkError("s1")
  /\ UNCHANGED accountVars

SpecFail == Init /\ [][NextFail]_vars

\* one session on the dashboard, every handler run to its end with the
\* GPA cards it updates
NextOverview ==
  /\ \/ Overview_mount("s1")
     \/ \E criteria \in Forms :
          /\ Overview_saveCriteria("s1", criteria)
          /\ CriteriaRoom(Len(ValidCriteria(criteria)))
     \/ \E is_current \in BOOLEAN : SemesterRoom /\ Overview_addSemester("s1", is_current)
     \/ SemesterRoom /\ Overview_addSemester_insert("s1")
     \/ \E semesterId \in 1..MaxSemesters, credit_hours \in FormCreditHours,
           grade \in FormGrades, attempt_type \in FormAttemptTypes :
          /\ nextId.modules <= MaxDialogModules
          /\ Overview_addModule("s1", semesterId, credit_hours, grade, attempt_type)
     \/ \E moduleId \in 1..MaxDialogModules : Overview_deleteModule("s1", moduleId)
     \/ \E semester \in semestersState["s1"] : Overview_deleteSemester("s1", semester)
     \/ Overview_deleteSemester_semester("s1")
  /\ UNCHANGED <<profiles, authVars, boardVars, setupVars>>

SpecOverview == Init /\ [][NextOverview]_vars

\* the setup form: rows with a grade name that is "A" or blank and a point
\* value that is "4", empty or "10" (which DECIMAL(3,2) cannot hold); the
\* user's two tabs load the dashboard, possibly with a failing check, and
\* save the form
SetupGradeNames == {<<"A">>, <<" ">>}
SetupGpaValues == {<<"4">>, <<>>, <<"1", "0">>}
SetupForms ==
  UNION { [1..n -> [grade_name : SetupGradeNames, gpa_value : SetupGpaValues]]
          : n \in 1..MaxFormRows }

NextSetup ==
  \/ \E s \in Sessions :
       /\ ~setupLoading[s]
       /\ LoadDashboard(s) \/ LoadDashboard_checkError(s)
       /\ UNCHANGED accountVars
  \/ \E s \in Sessions :
       /\ saveCriteria_begin(s)
       /\ UNCHANGED <<profiles, authVars, boardVars, overviewVars>>
  \/ \E s \in Sessions, criteria \in SetupForms :
       /\ saveCriteria_end(s, criteria)
       /\ CriteriaRoom(Len(ValidCriteria(criteria)))
       /\ UNCHANGED <<profiles, authVars, boardVars, overviewVars>>

SpecSetup == Init /\ [][NextSetup]_vars

(* ------------------------------- claims ------------------------------- *)
Scopes == {NULL} \cup {Some(i) : i \in 1..MaxSemesters}

InScope(m, scope) == scope = NULL \/ m.semester_id = ValueOf(scope)

\* the claims' eligible modules: owned by the user, in scope, not dropped,
\* grade label present in the user's grading scale
EligibleModules(u, scope) ==
  { m \in modules :
      /\ m.user_id = u
      /\ InScope(m, scope)
      /\ m.attempt_type # "dropped"
      /\ \E gc \in grading_criteria : gc.user_id = u /\ gc.grade_name = m.grade }

RECURSIVE SumCredits(_)
SumCredits(S) ==
  IF S = {} THEN 0
  ELSE LET m == CHOOSE x \in S : TRUE IN m.credit_hours + SumCredits(S \ {m})

RECURSIVE SumPoints(_, _)
SumPoints(S, f) ==
  IF S = {} THEN 0
  ELSE LET m == CHOOSE x \in S : TRUE
       IN f[m.id] * m.credit_hours + SumPoints(S \ {m}, f)

\* a point value for each module of E, taken from the entries of u's scale
\* that carry the module's grade label
PointValues(u, E) ==
  { f \in [{m.id : m \in E} -> {gc.gpa_value : gc \in OwnRows(grading_criteria, u)}] :
      \A m \in E : \E gc \in grading_criteria :
        gc.user_id = u /\ gc.grade_name = m.grade /\ gc.gpa_value = f[m.id] }

\* r is n / d rounded to the nearest integer, a tie going away from zero (d > 0)
IsRounded(r, n, d) ==
  \/ 2 * Abs(n - r * d) < d
  \/ 2 * Abs(n - r * d) = d /\ Abs(r) * d > Abs(n)

RoundedQuotients(n, d) == {r \in ((n \div d) - 1)..((n \div d) + 1) : IsRounded(r, n, d)}

\* C1: whenever the eligible modules of a user and scope have a non-zero credit
\* total, calculate_gpa returns round(sum(point * credits) / sum(credits), 2)
\* over exactly those modules (all semesters together when there is no scope)
C1_WeightedAverage ==
  \A u \in Users, scope \in Scopes :
    LET E == EligibleModules(u, scope)
        credits == SumCredits(E)
    IN credits # 0 =>
         GpaOutcomes(u, scope) =
           { Returned(r) : r \in UNION { RoundedQuotients(SumPoints(E, f), credits)
                                         : f \in PointValues(u, E) } }

\* 3 credits at 4.00 and 4 credits at 3.00 in two semesters give 3.43
C1_Witness ==
  \E a, b \in EligibleModules("u1", NULL) :
    /\ a.semester_id # b.semester_id
    /\ a.credit_hours = 3 /\ b.credit_hours = 4
    /\ EligibleModules("u1", NULL) = {a, b}
    /\ \E m \in modules : m.user_id = "u2"
    /\ GpaOutcomes("u1", NULL) = {Returned(343)}

\* C2: whenever the eligible credit hours total zero, calculate_gpa returns
\* exactly 0.00 and raises no error
C2_ZeroEligibleIsZero ==
  \A u \in Users, scope \in Scopes :
    SumCredits(EligibleModules(u, scope)) = 0 => GpaOutcomes(u, scope) = {Returned(0)}

\* only a dropped module and a module with an unlisted grade
C2_Witness ==
  /\ \E m \in OwnRows(modules, "u1") : m.attempt_type = "dropped"
  /\ \E m \in SelectedModules("u1", NULL) : MatchingCriteria("u1", m.grade) = {}
  /\ OwnRows(grading_criteria, "u1") # {}
  /\ EligibleModules("u1", NULL) = {}
  /\ GpaOutcomes("u1", NULL) = {Returned(0)}

\* a step that only adds the module row d
AddsModule(d) ==
  /\ d \notin modules
  /\ modules' = modules \cup {d}
  /\ UNCHANGED <<grading_criteria, semesters>>

\* C3: adding a dropped module changes calculate_gpa for no user and no scope
C3_DroppedIgnored ==
  [][ \A d \in modules' :
        (AddsModule(d) /\ d.attempt_type = "dropped") =>
          \A u \in Users, scope \in Scopes : GpaOutcomes(u, scope)' = GpaOutcomes(u, scope)
    ]_vars

\* a dropped module with a listed grade beside a counted one, same semester
C3_Witness ==
  \E d, m \in OwnRows(modules, "u1") :
    /\ d.attempt_type = "dropped"
    /\ MatchingCriteria("u1", d.grade) # {}
    /\ m \in EligibleModules("u1", Some(d.semester_id))
    /\ d.id > m.id
    /\ \A gc \in MatchingCriteria("u1", d.grade) :
         GpaOutcomes("u1", Some(d.semester_id)) # {Returned(gc.gpa_value)}

\* C4: adding a module whose grade label has no entry in its user's scale
\* changes calculate_gpa for no user and no scope, in whatever order the
\* modules are visited
C4_UnmappedIgnored ==
  [][ \A x \in modules' :
        (AddsModule(x) /\ MatchingCriteria(x.user_id, x.grade) = {}) =>
          \A u \in Users, scope \in Scopes : GpaOutcomes(u, scope)' = GpaOutcomes(u, scope)
    ]_vars

\* a counted module with the empty grade label beside two modules of
\* different point values
C4_Witness ==
  \E x, a, b \in SelectedModules("u1", NULL) :
    /\ x.grade = <<>>
    /\ {a, b} \subseteq EligibleModules("u1", NULL)
    /\ \E ga \in MatchingCriteria("u1", a.grade), gb \in MatchingCriteria("u1", b.grade) :
         ga.gpa_value # gb.gpa_value
    /\ x.id > a.id /\ x.id > b.id

\* C5: a step that leaves the modules of semester X, the scale and the
\* semesters alone leaves calculate_gpa(user, X) unchanged
C5_SemesterScope ==
  [][ \A X \in 1..MaxSemesters :
        ( /\ {m \in modules' : m.semester_id = X} = {m \in modules : m.semester_id = X}
          /\ UNCHANGED <<grading_criteria, semesters>> ) =>
          \A u \in Users : GpaOutcomes(u, Some(X))' = GpaOutcomes(u, Some(X))
    ]_vars

\* counted modules of one user in two semesters whose GPAs differ
C5_Witness ==
  /\ EligibleModules("u1", Some(1)) # {}
  /\ EligibleModules("u1", Some(2)) # {}
  /\ GpaOutcomes("u1", Some(1)) # GpaOutcomes("u1", Some(2))
  /\ GpaOutcomes("u1", NULL) # GpaOutcomes("u1", Some(1))

\* the largest point value of u's grading scale
MaxPointValue(u) ==
  CHOOSE v \in {gc.gpa_value : gc \in OwnRows(grading_criteria, u)} :
    \A gc \in OwnRows(grading_criteria, u) : gc.gpa_value <= v

\* C6: for every user with a grading scale and every scope, calculate_gpa
\* returns a value between 0.00 and the largest point value of the scale
C6_GpaInRange ==
  \A u \in Users, scope \in Scopes :
    OwnRows(grading_criteria, u) # {} =>
      \A r \in GpaOutcomes(u, scope) :
        r \in {Returned(v) : v \in 0..MaxPointValue(u)}

\* C7: on every snapshot, for every user and scope, calculate_gpa has exactly
\* one possible result
C7_Deterministic ==
  \A u \in Users, scope \in Scopes : Cardinality(GpaOutcomes(u, scope)) = 1

\* C8: no two entries of one user's grading scale carry the same grade label
C8_UniqueLabels ==
  \A a, b \in grading_criteria :
    (a.user_id = b.user_id /\ a.grade_name = b.grade_name) => a.id = b.id

\* the semesters of u flagged as current
CurrentSemesters(u) == {sem \in OwnRows(semesters, u) : sem.is_current}

\* C9: with one session adding semesters one at a time, at most one semester
\* of a user is current in every state a read can observe, so a semester
\* added as current is the only current one
C9_OneCurrent == \A u \in Users : Cardinality(CurrentSemesters(u)) <= 1

\* the second add-semester as current, between its UPDATE and its INSERT: the
\* session's list still shows the first semester as current, the store no longer
C9_Witness ==
  /\ pc["s1"] = "addSemester_insert"
  /\ \E old \in semestersState["s1"] :
       /\ old.is_current
       /\ [old EXCEPT !.is_current = FALSE] \in semesters
  /\ CurrentSemesters("u1") = {}

\* C10: every module's semester_id names an existing semester
C10_NoOrphanModule ==
  \A m \in modules : \E sem \in semesters : sem.id = m.semester_id

\* one semester is already deleted; a session is between the two DELETEs of
\* the confirm dialog and a module was added to its semester meanwhile
C10_Witness ==
  /\ Cardinality(semesters) < nextId.semesters - 1
  /\ \E s \in Sessions :
       /\ pc[s] = "deleteSemester_semester"
       /\ \E m \in modules : Some(m.semester_id) = semesterToDelete[s]

\* the rank numbers the page of session s can show beside each entry:
\* (page - 1) * itemsPerPage + index + 1, the index being any position of the
\* entry's group of equal GPA
RECURSIVE GroupBase(_, _)
GroupBase(groups, k) ==
  IF k = 1 THEN 0 ELSE GroupBase(groups, k - 1) + Cardinality(groups[k - 1])

ShownAt(s) ==
  UNION { { [rank |-> (page[s] - 1) * itemsPerPage + GroupBase(leaderboard[s], k) + i,
             gpa |-> e.gpa, user_id |-> e.user_id]
            : e \in leaderboard[s][k], i \in 1..Cardinality(leaderboard[s][k]) }
          : k \in 1..Len(leaderboard[s]) }

\* the page session s shows is one a load of the present store can produce
ShowsCurrent(s) ==
  /\ profile[s] # NULL
  /\ leaderboard[s] # <<>>
  /\ totalPages[s] = PagesOf(Cardinality(FilteredProfiles(s, ValueOf(profile[s]))))
  /\ \E rows \in RangeRows(FilteredProfiles(s, ValueOf(profile[s])), page[s]) :
       \E entries \in LeaderboardWithGPA(rows, {}) : SortByGpa(entries) = leaderboard[s]

\* C11: over the pages a viewer's sessions show of the present leaderboard, an
\* entry with a smaller rank number never has a smaller GPA than an entry
\* with a larger rank number
C11_RanksFollowGpa ==
  \A s, t \in Sessions :
    (ShowsCurrent(s) /\ ShowsCurrent(t)) =>
      \A a \in ShownAt(s), b \in ShownAt(t) : a.rank < b.rank => a.gpa >= b.gpa

\* C12: the entries of a displayed page are in non-increasing order of the
\* GPA shown (an entry at a smaller position never shows a smaller GPA than
\* one at a larger position), and every entry has the university and the
\* course of the viewer's profile
C12_PageSortedSameProgramme ==
  \A s \in Sessions :
    /\ \A a, b \in ShownAt(s) : a.rank < b.rank => a.gpa >= b.gpa
    /\ \A k \in 1..Len(leaderboard[s]) : \A e \in leaderboard[s][k] :
         /\ profile[s] # NULL
         /\ e.university_name = ValueOf(profile[s]).university_name
         /\ e.course_name = ValueOf(profile[s]).course_name

\* a page of three entries with three different GPAs, while a profile of
\* another university is left out
C12_Witness ==
  \E s \in Sessions :
    /\ Len(leaderboard[s]) = 3
    /\ leaderboard[s][1] # {} /\ \A e \in leaderboard[s][1] : e.gpa = 400
    /\ \A e \in leaderboard[s][2] : e.gpa = 300
    /\ \A e \in leaderboard[s][3] : e.gpa = 0
    /\ \E p \in profiles : p.university_name # ValueOf(profile[s]).university_name

\* the rows of the four tables a user owns
OwnedRows(u) ==
  [grading_criteria |-> OwnRows(grading_criteria, u),
   semesters |-> OwnRows(semesters, u),
   modules |-> OwnRows(modules, u),
   profiles |-> OwnRows(profiles, u)]

\* C13: a request of user A leaves every row owned by a different user B as
\* it was (none inserted, updated or deleted), and A's reads of scales,
\* semesters and modules return rows of A only
C13_OwnRowsOnly ==
  [][\A a \in Users :
       PeerRequest(a) =>
         /\ \A b \in Users \ {a} : OwnedRows(b)' = OwnedRows(b)
         /\ \A r \in OwnRows(grading_criteria, a) \cup OwnRows(semesters, a)
                       \cup OwnRows(modules, a) : r.user_id = a]_vars

\* two users are peers when a profile of one and a profile of the other have
\* the same university and course
Peers(a, b) ==
  \E p \in OwnRows(profiles, a), q \in OwnRows(profiles, b) :
    p.university_name = q.university_name /\ p.course_name = q.course_name

\* what the store's read operations return to requester a: the profiles
\* table, the two leaderboard procedures for each programme, and
\* calculate_gpa for each user id
Observed(a) ==
  [profiles |-> VisibleProfiles(a),
   get_leaderboard |-> [u \in PageUniversities |-> get_leaderboard(u, "C")],
   count_leaderboard_entries |->
     [u \in PageUniversities |-> count_leaderboard_entries(u, "C")],
   calculate_gpa |-> [u \in Users |-> GpaOutcomes(u, NULL)]]

\* C14: when user B is not a peer of requester A, a request of B that changes
\* rows of B only (its profile, modules or scale) changes nothing of what the
\* read operations return to A
C14_NonPeersUnobserved ==
  [][\A a, b \in Users :
       ( /\ a # b
         /\ Registered(a)
         /\ PeerRequest(b)
         /\ ~Peers(a, b) /\ ~Peers(a, b)'
         /\ \A c \in Users \ {b} : OwnedRows(c)' = OwnedRows(c) )
       => Observed(a)' = Observed(a)]_vars

RegistrationUsed(r) == \E p \in profiles : p.registration_number = r

\* C15: no two profiles share a registration number, and a signup whose
\* registration number an existing profile already has ends with an error
\* shown to the user and leaves the profiles as they were
C15_RegistrationNumbersUnique ==
  [][ /\ \A p, q \in profiles' : p.registration_number = q.registration_number => p = q
      /\ \A form \in AuthForms, passwordsMatch \in BOOLEAN, signUp \in SignUpResults :
           ( /\ RegistrationUsed(form.registrationNumber)
             /\ handleSignup(form, passwordsMatch, signUp) )
           => /\ profiles' = profiles
              /\ authToast' # NULL
              /\ showConfirmationDialog' = showConfirmationDialog ]_vars

\* a profile holds a registration number and a signup with that number was
\* turned down by the constraint
C15_Witness ==
  /\ authToast = Some("duplicate key value violates unique constraint")
  /\ \E p \in profiles : RegistrationUsed(p.registration_number)

\* C16: every account has at most one profile row, so the query for the
\* profile of a user id never finds two rows
C16_OneProfilePerUser ==
  \A i \in 1..Len(AccountIds) : Cardinality(OwnRows(profiles, AccountIds[i])) <= 1

\* C17: for every user and scope, and every way the scale lookups of the
\* selected modules end, calculate_gpa returns the same result whatever the
\* order in which the loop visits the modules
C17_OrderInvariant ==
  \A u \in Users, scope \in Scopes :
    LET S == SelectedModules(u, scope)
    IN \A pick \in Picks(u, S) : \A o1, o2 \in Orders(S) :
         calculate_gpa(u, scope, o1, pick) = calculate_gpa(u, scope, o2, pick)

\* a user with at least two counted modules whose grades have different
\* point values, so that two visiting orders add different terms first
C17_Witness ==
  \E u \in Users :
    \E m1, m2 \in SelectedModules(u, NULL) :
      /\ m1.id # m2.id
      /\ m1.credit_hours # m2.credit_hours
      /\ \E g1 \in MatchingCriteria(u, m1.grade), g2 \in MatchingCriteria(u, m2.grade) :
           g1.gpa_value # g2.gpa_value

\* n / d lies exactly halfway between two adjacent integers (d > 0)
IsTie(n, d) == (2 * Abs(n)) % (2 * d) = d

\* the exact point totals of the eligible modules that value is a nearest
\* hundredth of, when divided by the modules' credit total
RoundedFrom(u, scope, value) ==
  LET E == EligibleModules(u, scope)
  IN { n \in {SumPoints(E, f) : f \in PointValues(u, E)} :
         2 * Abs(n - value * SumCredits(E)) <= SumCredits(E) }

\* C18: the result is the quotient of the totals rounded to hundredths, and
\* when the quotient lies halfway between two adjacent hundredths it is the
\* one farther from zero (0.01 for points 0.01 and 0.00 with one credit each)
C18_TiesAwayFromZero ==
  \A u \in Users, scope \in Scopes :
    LET credits == SumCredits(EligibleModules(u, scope))
    IN credits # 0 =>
         \A out \in GpaOutcomes(u, scope) :
           /\ "value" \in DOMAIN out
           /\ \E n \in RoundedFrom(u, scope, out.value) :
                IsTie(n, credits) => Abs(out.value) * credits > Abs(n)

\* points 0.01 and 0.00 with one credit each give 0.01
C18_Witness ==
  \E a, b \in EligibleModules("u1", NULL) :
    /\ EligibleModules("u1", NULL) = {a, b}
    /\ a.credit_hours = 1 /\ b.credit_hours = 1
    /\ PointValues("u1", {a, b}) = {(a.id :> 1) @@ (b.id :> 0)}
    /\ GpaOutcomes("u1", NULL) = {Returned(1)}

\* C19: a load of the leaderboard in which GPA requests fail presents no
\* number for them as a GPA: every GPA the loaded page shows is a value
\* calculate_gpa returns for that entry's user
C19_FailureNotShownAsGpa ==
  [][\A s \in Sessions, failures \in SUBSET PageStudents :
       Leaderboard_getSession(s, failures) =>
         \A k \in 1..Len(leaderboard'[s]) : \A e \in leaderboard'[s][k] :
           Returned(e.gpa) \in GpaOutcomes(e.user_id, NULL)]_vars

\* C20: the INSERT of a semester added as current runs only after the clear
\* took effect: when it runs no semester of the user is current, so that a
\* failed clear never leads to two current semesters
C20_FailedClearStopsInsert ==
  [][\A s \in Sessions :
       AddSemester_insert(s) =>
         /\ CurrentSemesters(SessionUser(s)) = {}
         /\ Cardinality(CurrentSemesters(SessionUser(s))') <= 1]_vars

\* C21: when an add-semester as current completes and no other submit of the
\* user's sessions is still under way, exactly one semester of the user is
\* current, the one written last
C21_LastAddIsTheCurrent ==
  [][\A s \in Sessions :
       (AddSemester_insert(s) /\ \A t \in Sessions : pc'[t] = "idle") =>
         \E sem \in semesters' :
           /\ sem.id = nextId.semesters
           /\ CurrentSemesters(SessionUser(s))' = {sem}]_vars

\* the modules attached to semester sid
ModulesOf(sid) == {m \in modules : m.semester_id = sid}

\* C22: after confirmDeleteSemester has run, either the semester and all of
\* its modules are gone, or the semester and every one of its modules are
\* still there
C22_DeleteAllOrNothing ==
  [][\A s \in Sessions, result \in DeleteResults :
       \A semester \in semestersState[s] :
         confirmDeleteSemester_run(s, semester, result) =>
           \/ /\ \A sem \in semesters' : sem.id # semester.id
              /\ ModulesOf(semester.id)' = {}
           \/ /\ \E sem \in semesters' : sem.id = semester.id
              /\ ModulesOf(semester.id) \subseteq modules']_vars

\* the module rows that already hold what the add-module dialog submits
SameModule(userId, semesterId, credit_hours, grade, attempt_type) ==
  { m \in modules : /\ m.user_id = userId
                    /\ m.semester_id = semesterId
                    /\ Some(m.credit_hours) = parseInt(credit_hours)
                    /\ m.grade = grade
                    /\ m.attempt_type = attempt_type }

\* C23: a request issued again after it was applied leaves the store as it
\* is: an add-module whose row the store already holds adds no module, and an
\* add-semester (not current) whose row the store already holds adds no
\* semester
C23_RetryChangesNothing ==
  [][\A s \in Sessions :
       /\ \A semesterId \in 1..MaxSemesters, credit_hours \in FormCreditHours,
             grade \in FormGrades, attempt_type \in FormAttemptTypes :
            ( /\ SameModule(SessionUser(s), semesterId, credit_hours, grade,
                            attempt_type) # {}
              /\ AddModule_handleSubmit(s, semesterId, credit_hours, grade, attempt_type) )
            => modules' = modules
       /\ ( /\ \E sem \in OwnRows(semesters, SessionUser(s)) : ~sem.is_current
            /\ AddSemester_handleSubmit(s, FALSE) )
          => semesters' = semesters]_vars

\* C24: every module the add-module dialog creates carries a grade label
\* that the owner's grading scale holds when the module is created
C24_DialogGradeInScale ==
  [][\A s \in Sessions, semesterId \in 1..MaxSemesters, credit_hours \in FormCreditHours,
        grade \in FormGrades, attempt_type \in FormAttemptTypes :
       AddModule_handleSubmit(s, semesterId, credit_hours, grade, attempt_type) =>
         \A m \in modules' \ modules :
           \E gc \in OwnRows(grading_criteria, m.user_id) : gc.grade_name = m.grade]_vars

\* C25: an add-semester whose INSERT fails leaves the store as it was: the
\* semester that was current before the attempt is current after it
C25_FailedAddChangesNothing ==
  [][\A s \in Sessions, is_current \in BOOLEAN :
       AddSemester_insertError(s, is_current) =>
         /\ semesters' = semesters
         /\ CurrentSemesters(SessionUser(s))' = CurrentSemesters(SessionUser(s))]_vars

\* C26: whenever the semester overview is loaded and no handler is under
\* way, the current-semester card shows a value calculate_gpa returns for
\* the semester flagged current in the store, and 0.00 when none is flagged
C26_CurrentCardShowsCurrentGpa ==
  \A s \in Sessions :
    (pc[s] = "idle" /\ hasGradingCriteria[s]) =>
      LET current == CurrentSemesters(SessionUser(s))
      IN IF current = {} THEN currentGPA[s] = 0
         ELSE \E sem \in current :
                Returned(currentGPA[s]) \in GpaOutcomes(SessionUser(s), Some(sem.id))

C28_SignupAccountHasProfile ==
  [][ \A form \in AuthForms, passwordsMatch \in BOOLEAN, signUp \in SignUpResults :
        ( /\ handleSignup(form, passwordsMatch, signUp)
          /\ nextId'.users > nextId.users )
        => OwnRows(profiles', AccountIds[nextId.users]) # {} ]_vars

\* C29: whenever the dashboard of a user who has at least one grading-scale
\* entry loads, it ends on the semester overview and not on the setup form
\* (hasGradingCriteria is true), also when the check for entries fails
C29_LoadedDashboardSkipsSetup ==
  [][ \A s \in Sessions :
        ( /\ OwnRows(grading_criteria, SessionUser(s)) # {}
          /\ (LoadDashboard(s) \/ LoadDashboard_checkError(s)) )
        => hasGradingCriteria'[s] ]_vars

\* a field that is empty or holds only blanks
IsBlank(text) == \A k \in 1..Len(text) : IsSpace(text[k])

\* a row of the form that has a grade name and a numeric point value
SetupRowValid(c) == ~IsBlank(c.grade_name) /\ ~IsBlank(c.gpa_value) /\ parseFloat(c.gpa_value) # NaN

\* the form has no valid row, or the store cannot hold a valid row's value
SetupSaveFails(criteria) ==
  \/ \A i \in 1..Len(criteria) : ~SetupRowValid(criteria[i])
  \/ \E i \in 1..Len(criteria) :
       /\ SetupRowValid(criteria[i])
       /\ ~FitsDecimal32(ToDecimal32(ValueOf(parseFloat(criteria[i].gpa_value))))

\* C30: every row saveCriteria inserts comes from a form row with a
\* non-blank grade name and a non-blank numeric point value; when the form
\* has no valid row or the insert fails, the store is left as it was, the
\* toast shows an error, onComplete is not called (hasGradingCriteria stays
\* false) and the loading flag is false again
C30_SaveOnlyValidAndOnSuccess ==
  [][ \A s \in Sessions, criteria \in SetupForms :
        saveCriteria_end(s, criteria) =>
          /\ \A row \in grading_criteria' \ grading_criteria :
               \E i \in 1..Len(criteria) :
                 /\ SetupRowValid(criteria[i])
                 /\ row.grade_name = trim(criteria[i].grade_name)
                 /\ row.gpa_value = ToDecimal32(ValueOf(parseFloat(criteria[i].gpa_value)))
          /\ ~setupLoading'[s]
          /\ SetupSaveFails(criteria) =>
               /\ storeVars' = storeVars
               /\ setupToast'[s] \notin {NULL, Some("Grading criteria saved successfully!")}
               /\ ~hasGradingCriteria'[s] ]_vars

\* a save of a form with a blank row beside a valid one has inserted one
\* row, and a save that failed has shown its error and reset the flag
C30_Witness ==
  /\ Cardinality(grading_criteria) = 1
  /\ \E s \in Sessions :
       /\ setupToast[s] = Some("numeric field overflow")
       /\ ~setupLoading[s]
       /\ ~hasGradingCriteria[s]

====
